---- MODULE Spec2Model ----
(***************************************************************************)
(* A model of mcp-twikit (src/src/mcp_twikit/twitter.py): the session      *)
(* manager get_twitter_client over the cookie file COOKIES_PATH, the       *)
(* seventeen active tools with their try/except wrappers, and the          *)
(* formatter convert_tweets_to_markdown.                                   *)
(*                                                                         *)
(* Texts are TLA+ strings, built with \o exactly where the source builds   *)
(* them with f-strings and str.join.  The external twikit client and the   *)
(* network are the environment: every call into them has a                 *)
(* nondeterministic outcome (a value, None, or a raised exception).        *)
(***************************************************************************)
EXTENDS Integers, Sequences, FiniteSets, TLC

VARIABLES
    inv,        \* inv[p]: the tool invocation (coroutine) p: its locals and position
    fs,         \* the filesystem at COOKIES_PATH: parent directory and cookie file
    tweets,     \* convert_tweets_to_markdown: the argument of the call under test
    markdown,   \* convert_tweets_to_markdown: the value returned
    fmtPc,      \* convert_tweets_to_markdown: "call" before, "return" after
    lastSaved   \* history: the invocation whose save_cookies ran last (0: none yet)

vars == <<inv, fs, tweets, markdown, fmtPc, lastSaved>>

---------------------------------------------------------------------------
(* Bounds of the model *)

\* number of tool invocations the server may have in flight
NumProcs == 2
\* number of distinct session states a login can produce
NumSessions == 2
\* longest tweet list handed to convert_tweets_to_markdown
MaxTweets == 2

Procs == 1..NumProcs
Sessions == 1..NumSessions

---------------------------------------------------------------------------
(* Strings *)

StartsWith(s, prefix) ==
    Len(s) >= Len(prefix) /\ SubSeq(s, 1, Len(prefix)) = prefix

\* faulty variant of lstrip_at: removes "@@" only
lstrip_one_pair(s) ==
    IF Len(s) > 1 /\ Head(s) = "@" /\ Head(Tail(s)) = "@" THEN Tail(Tail(s)) ELSE s

\* str.lstrip('@'): removes every leading "@"
RECURSIVE lstrip_at(_)
lstrip_at(s) ==
    IF Len(s) > 0 /\ Head(s) = "@" THEN lstrip_at(Tail(s)) ELSE s

\* sep.join(items)
RECURSIVE JoinUpTo(_, _, _)
JoinUpTo(sep, items, n) ==
    IF n = 0 THEN ""
    ELSE IF n = 1 THEN items[1]
    ELSE JoinUpTo(sep, items, n - 1) \o sep \o items[n]

\* faulty variant of join: a separator after every item
join_trailing(sep, items) ==
    IF items = <<>> THEN "" ELSE JoinUpTo(sep, items, Len(items)) \o sep

join(sep, items) == JoinUpTo(sep, items, Len(items))

---------------------------------------------------------------------------
(* convert_tweets_to_markdown *)

\* the f-string of the loop body
tweet_text(tweet) ==
    "**@" \o tweet.screen_name \o "** - " \o tweet.created_at \o "\n" \o tweet.text

\* the list markdown_tweets after the loop
markdown_tweets(tw) == [k \in 1..Len(tw) |-> tweet_text(tw[k])]

convert_tweets_to_markdown(tw) == join("\n\n", markdown_tweets(tw))

---------------------------------------------------------------------------
(* Cookie jars, the filesystem, exceptions *)

\* A cookie jar: the session state a client holds or a cookie file stores.
\* "cookies" with live = FALSE is a stale (expired) session; "corrupt" is a
\* file json.load cannot read; "absent" is no file; "empty" a fresh Client.
EmptyJar == [kind |-> "empty", sess |-> 0, live |-> FALSE]
NoFile == [kind |-> "absent", sess |-> 0, live |-> FALSE]
CorruptFile == [kind |-> "corrupt", sess |-> 0, live |-> FALSE]
Cookies(s, l) == [kind |-> "cookies", sess |-> s, live |-> l]

CookieFiles == {NoFile, CorruptFile} \cup {Cookies(s, l) : s \in Sessions, l \in BOOLEAN}

\* The filesystems the program can meet: a file only inside its directory.
FsStates ==
    {[dir |-> d, file |-> f] : d \in BOOLEAN, f \in CookieFiles} \
        {[dir |-> FALSE, file |-> f] : f \in CookieFiles \ {NoFile}}

NoExc == [set |-> FALSE, msg |-> ""]
Exc(m) == [set |-> TRUE, msg |-> m]

\* str(e) of the exceptions the environment raises
ErrMsgs == {"", "denied"}
JsonErr == "Expecting value"
NoDirErr == "No such file or directory"
AttrErr == "object has no attribute"

---------------------------------------------------------------------------
(* The tools *)

TweetListTools == {"search_twitter", "get_timeline", "get_latest_timeline"}
RelationTools == {"follow_user", "unfollow_user", "block_user", "unblock_user"}
UserListTools == {"get_user_followers", "get_user_following"}
UsernameTools ==
    {"get_user_tweets", "get_user_by_screen_name"} \cup RelationTools \cup UserListTools
PostTools == {"create_tweet", "reply_to_tweet", "send_dm"}
TweetIdTools == {"like_tweet", "retweet"}
Tools ==
    TweetListTools \cup UsernameTools \cup PostTools \cup TweetIdTools \cup {"get_trends"}

\* the first string argument of each tool (username, tweet_id, category, ...)
Usernames == {"alice", "@alice", "@@bob", "", "@"}
ArgsOf(t) ==
    IF t \in UsernameTools THEN Usernames
    ELSE IF t \in TweetIdTools \cup {"reply_to_tweet", "send_dm"} THEN {"42"}
    ELSE IF t = "get_trends" THEN {"trending"}
    ELSE IF t \in {"search_twitter", "create_tweet"} THEN {"hello"}
    ELSE {""}

\* the client method of the tool's primary call
PrimaryMethod(t) ==
    CASE t = "search_twitter" -> "search_tweet"
      [] t = "reply_to_tweet" -> "create_tweet"
      [] t = "like_tweet" -> "favorite_tweet"
      [] OTHER -> t

\* the text between "Failed to " and ": {e}" in the tool's except clause
FailAction(t, username) ==
    CASE t = "search_twitter" -> "search tweets"
      [] t = "get_user_tweets" -> "get user tweets"
      [] t = "get_timeline" -> "get timeline"
      [] t = "get_latest_timeline" -> "get latest timeline"
      [] t = "create_tweet" -> "create tweet"
      [] t = "reply_to_tweet" -> "reply to tweet"
      [] t = "like_tweet" -> "like tweet"
      [] t = "retweet" -> "retweet"
      [] t = "follow_user" -> "follow user"
      [] t = "unfollow_user" -> "unfollow user"
      [] t = "block_user" -> "block user"
      [] t = "unblock_user" -> "unblock user"
      [] t = "get_user_by_screen_name" -> "retrieve user by screen name"
      [] t = "get_user_followers" -> "get followers for user " \o username
      [] t = "get_user_following" -> "get following list for user " \o username
      [] t = "send_dm" -> "send DM"
      [] t = "get_trends" -> "get trends"

\* the text returned when the lookup gives no user
NotFoundText(t, username) ==
    IF t = "get_user_by_screen_name"
    THEN "Could not find user with screen name " \o username
    ELSE "Could not find user " \o username

---------------------------------------------------------------------------
(* What the twikit client returns *)

\* the twikit.User the lookup resolves a screen name to
UserFor(n) ==
    [id |-> "7", name |-> "N", screen_name |-> n, description |-> "d",
     verified |-> "False", followers_count |-> "1", following_count |-> "2",
     location |-> "L", created_at |-> "T0", profile_image_url |-> "img",
     profile_banner_url |-> "None"]

\* user is None (or not yet assigned): no id
NoUser == [UserFor("") EXCEPT !.id = ""]

RECURSIVE SeqsUpTo(_, _)
SeqsUpTo(S, n) ==
    IF n = 0 THEN {<<>>}
    ELSE LET shorter == SeqsUpTo(S, n - 1)
         IN shorter \cup {Append(q, x) : q \in shorter, x \in S}

Tweet ==
    [screen_name : {"a", "b"}, created_at : {"T1", "T2"}, text : {"hi", "yo"}]
TweetSeqs == SeqsUpTo(Tweet, MaxTweets)

UserLists ==
    SeqsUpTo({[screen_name |-> "bob", id |-> "8"], [screen_name |-> "carol", id |-> "9"]},
             MaxTweets)
TrendLists ==
    SeqsUpTo({[name |-> "#tla", tweets_count |-> "10"], [name |-> "news", tweets_count |-> "None"]},
             MaxTweets)

\* An outcome of one awaited client call: "ok" (a value), "none" (None),
\* "malformed" (a value whose attributes the formatting cannot read),
\* "raise" (an exception whose str() is msg).
Outcome(k, m, s, id, items) ==
    [kind |-> k, msg |-> m, sess |-> s, id |-> id, items |-> items]
NoOutcome == Outcome("ok", "", 0, "", <<>>)
Raises == {Outcome("raise", m, 0, "", <<>>) : m \in ErrMsgs}

LoginOutcomes == {Outcome("ok", "", s, "", <<>>) : s \in Sessions} \cup Raises

\* tools whose success text reads attributes of the call's result
FormatsResult(t) == t \notin RelationTools \cup TweetIdTools

ItemsOf(t) ==
    IF t \in TweetListTools \cup {"get_user_tweets"} THEN TweetSeqs
    ELSE IF t \in UserListTools THEN UserLists
    ELSE IF t = "get_trends" THEN TrendLists
    ELSE {<<>>}

\* A client without live cookies is refused by the network.
LookupOutcomes(i) ==
    IF i.client.live
    THEN Raises \cup {Outcome(k, "", 0, "", <<>>) : k \in {"ok", "none", "malformed"}}
    ELSE Raises

PrimaryOutcomes(i) ==
    IF i.client.live
    THEN Raises
         \cup {Outcome("ok", "", 0, IF i.tool \in PostTools THEN "99" ELSE "", x) :
                  x \in ItemsOf(i.tool)}
         \cup (IF FormatsResult(i.tool) THEN {Outcome("malformed", "", 0, "", <<>>)} ELSE {})
    ELSE Raises

---------------------------------------------------------------------------
(* One tool invocation *)

Pending == [kind |-> "none", text |-> ""]
Text(t) == [kind |-> "text", text |-> t]
Raised(m) == [kind |-> "raise", text |-> m]

\* An invocation not started.  client is the twikit.Client; found the value of
\* COOKIES_PATH.exists(); acq how get_twitter_client ended; acqExc what it
\* raised; calls the client methods called so far, with their first argument;
\* log the logger.error messages; exc the exception the tool's except clause
\* caught; ret what the tool handed back to the protocol server.
Idle ==
    [pc |-> "idle", tool |-> "", arg |-> "", username |-> "", client |-> EmptyJar,
     found |-> FALSE, acq |-> "none", acqExc |-> NoExc, user |-> NoUser,
     calls |-> <<>>, log |-> <<>>, exc |-> NoExc, ret |-> Pending]

Called(i, method, a) == [i EXCEPT !.calls = Append(@, <<method, a>>)]

\* return <text> inside the try block
ReturnText(i, t) == [i EXCEPT !.pc = "done", !.ret = Text(t)]

\* faulty variant of Except: the exception leaves the tool uncaught
Propagate(i, m) == [i EXCEPT !.pc = "done", !.ret = Raised(m)]

\* except Exception as e: logger.error(...); return f"Failed to <action>: {e}"
Except(i, m) ==
    LET t == "Failed to " \o FailAction(i.tool, i.username) \o ": " \o m
    IN [i EXCEPT !.pc = "done", !.exc = Exc(m), !.log = Append(@, t), !.ret = Text(t)]

\* faulty variant of AcquireRaises: the call placed before the try block
AcquireOutsideTry(i, m) ==
    Propagate([i EXCEPT !.acq = "raised", !.acqExc = Exc(m)], m)

\* get_twitter_client raises m: the call is the first statement of the tool's try
AcquireRaises(i, m) ==
    Except([i EXCEPT !.acq = "raised", !.acqExc = Exc(m)], m)

\* where the tool body goes on after client = await get_twitter_client()
BodyPc(t) == IF t \in UsernameTools THEN "lookup" ELSE "primary"

AcquireReturns(i) == [i EXCEPT !.acq = "returned", !.pc = BodyPc(i.tool)]

---------------------------------------------------------------------------
(* get_twitter_client, one step per statement *)

R(i, f) == [inv |-> i, fs |-> f]

\* faulty variant of exists_step: the file is never looked for
exists_ignored(i, f) == R([i EXCEPT !.found = FALSE, !.pc = "login"], f)

\* if COOKIES_PATH.exists():
exists_step(i, f) ==
    LET e == f.file.kind # "absent"
    IN R([i EXCEPT !.found = e, !.pc = IF e THEN "load" ELSE "login"], f)

\* faulty variant of load_cookies_step: an unreadable file falls back to login
load_or_relogin(i, f) ==
    IF f.file.kind = "cookies"
    THEN R(AcquireReturns([Called(i, "load_cookies", "") EXCEPT !.client = f.file]), f)
    ELSE R([i EXCEPT !.pc = "login"], f)

\* client.load_cookies(COOKIES_PATH): open + json.load + set_cookies
load_cookies_step(i, f) ==
    LET j == Called(i, "load_cookies", "")
    IN CASE f.file.kind = "cookies" -> R(AcquireReturns([j EXCEPT !.client = f.file]), f)
         [] f.file.kind = "corrupt" -> R(AcquireRaises(j, JsonErr), f)
         [] OTHER -> R(AcquireRaises(j, NoDirErr), f)

\* faulty variant of login_step: a failed login removes the cookie file
login_invalidates(i, f, o) ==
    LET j == Called(i, "login", "")
    IN IF o.kind = "ok"
       THEN R([j EXCEPT !.client = Cookies(o.sess, TRUE), !.pc = "mkdir"], f)
       ELSE R(AcquireRaises([j EXCEPT !.log = Append(@, "Failed to login: " \o o.msg)],
                            o.msg), [f EXCEPT !.file = NoFile])

\* faulty variant of login_step: the directory is made before login is tried
login_after_mkdir(i, f, o) ==
    LET j == Called(i, "login", "")
        g == [f EXCEPT !.dir = TRUE]
    IN IF o.kind = "ok"
       THEN R([j EXCEPT !.client = Cookies(o.sess, TRUE), !.pc = "mkdir"], g)
       ELSE R(AcquireRaises([j EXCEPT !.log = Append(@, "Failed to login: " \o o.msg)],
                            o.msg), g)

\* try: await client.login(...) except Exception as e: logger.error(...); raise
login_step(i, f, o) ==
    LET j == Called(i, "login", "")
    IN IF o.kind = "ok"
       THEN R([j EXCEPT !.client = Cookies(o.sess, TRUE), !.pc = "mkdir"], f)
       ELSE R(AcquireRaises([j EXCEPT !.log = Append(@, "Failed to login: " \o o.msg)],
                            o.msg), f)

\* faulty variant of mkdir_step: the directory is not made
mkdir_skipped(i, f) == R([i EXCEPT !.pc = "save"], f)

\* COOKIES_PATH.parent.mkdir(parents=True, exist_ok=True)
mkdir_step(i, f) == R([i EXCEPT !.pc = "save"], [f EXCEPT !.dir = TRUE])

\* faulty variant of save_cookies_step: an existing file is kept
save_if_absent(i, f) ==
    LET j == Called(i, "save_cookies", "")
    IN IF f.dir
       THEN R(AcquireReturns(j),
              IF f.file.kind = "absent" THEN [f EXCEPT !.file = i.client] ELSE f)
       ELSE R(AcquireRaises(j, NoDirErr), f)

\* client.save_cookies(COOKIES_PATH); return client
save_cookies_step(i, f) ==
    LET j == Called(i, "save_cookies", "")
    IN IF f.dir
       THEN R(AcquireReturns(j), [f EXCEPT !.file = i.client])
       ELSE R(AcquireRaises(j, NoDirErr), f)

---------------------------------------------------------------------------
(* The tool bodies after the client is acquired *)

\* the f-string user_info of get_user_by_screen_name
user_info(u) ==
    "ID: " \o u.id \o "\n"
    \o "Name: " \o u.name \o "\n"
    \o "Screen Name: " \o u.screen_name \o "\n"
    \o "Description: " \o u.description \o "\n"
    \o "Verified: " \o u.verified \o "\n"
    \o "Followers Count: " \o u.followers_count \o "\n"
    \o "Following Count: " \o u.following_count \o "\n"
    \o "Location: " \o u.location \o "\n"
    \o "Created At: " \o u.created_at \o "\n"
    \o "Profile Image URL: " \o u.profile_image_url \o "\n"
    \o "Profile Banner URL: " \o u.profile_banner_url \o "\n"

user_lines(us) ==
    join("\n", [k \in 1..Len(us) |->
                    "  - @" \o us[k].screen_name \o " (ID: " \o us[k].id \o ")"])

trend_lines(ts) ==
    join("\n", [k \in 1..Len(ts) |->
                    "  - " \o ts[k].name \o " (Tweets: " \o ts[k].tweets_count \o ")"])

\* the text each tool returns after its primary call succeeded
SuccessText(i, o) ==
    CASE i.tool \in TweetListTools \cup {"get_user_tweets"} ->
            convert_tweets_to_markdown(o.items)
      [] i.tool = "create_tweet" -> "Tweet created successfully: " \o o.id
      [] i.tool = "reply_to_tweet" -> "Reply sent successfully: " \o o.id
      [] i.tool = "like_tweet" -> "Tweet " \o i.arg \o " liked successfully."
      [] i.tool = "retweet" -> "Tweet " \o i.arg \o " retweeted successfully."
      [] i.tool = "follow_user" -> "Successfully followed user " \o i.username
      [] i.tool = "unfollow_user" -> "Successfully unfollowed user " \o i.username
      [] i.tool = "block_user" -> "Successfully blocked user " \o i.username
      [] i.tool = "unblock_user" -> "Successfully unblocked user " \o i.username
      [] i.tool = "get_user_followers" ->
            "Followers of " \o i.username \o ":\n" \o user_lines(o.items)
      [] i.tool = "get_user_following" ->
            "Users followed by " \o i.username \o ":\n" \o user_lines(o.items)
      [] i.tool = "send_dm" -> "Direct message sent successfully: " \o o.id
      [] i.tool = "get_trends" -> "Trends in " \o i.arg \o ":\n" \o trend_lines(o.items)

\* the first argument of the primary call
PrimaryArg(i) == IF i.tool \in UsernameTools THEN i.user.id ELSE i.arg

\* the primary client call, then the formatting and the return
primary_step(i, o) ==
    LET j == Called(i, PrimaryMethod(i.tool), PrimaryArg(i))
    IN CASE o.kind = "raise" -> Except(j, o.msg)
         [] o.kind = "malformed" -> Except(j, AttrErr)
         [] OTHER -> ReturnText(j, SuccessText(j, o))

\* faulty variant of lookup_step: the primary call is made although no user was found
lookup_then_call(i, o) ==
    LET u == lstrip_at(i.username)
        j == Called([i EXCEPT !.username = u], "get_user_by_screen_name", u)
    IN CASE o.kind = "raise" -> Except(j, o.msg)
         [] o.kind = "none" ->
                ReturnText(Called(j, PrimaryMethod(i.tool), ""), NotFoundText(i.tool, u))
         [] o.kind = "malformed" -> Except(j, AttrErr)
         [] i.tool = "get_user_by_screen_name" ->
                ReturnText([j EXCEPT !.user = UserFor(u)], user_info(UserFor(u)))
         [] OTHER -> [j EXCEPT !.user = UserFor(u), !.pc = "primary"]

\* username = username.lstrip('@'); user = await client.get_user_by_screen_name(username);
\* if not user: return ...   (get_user_by_screen_name formats user and returns here)
lookup_step(i, o) ==
    LET u == lstrip_at(i.username)
        j == Called([i EXCEPT !.username = u], "get_user_by_screen_name", u)
    IN CASE o.kind = "raise" -> Except(j, o.msg)
         [] o.kind = "none" -> ReturnText(j, NotFoundText(i.tool, u))
         [] o.kind = "malformed" -> Except(j, AttrErr)
         [] i.tool = "get_user_by_screen_name" ->
                ReturnText([j EXCEPT !.user = UserFor(u)], user_info(UserFor(u)))
         [] OTHER -> [j EXCEPT !.user = UserFor(u), !.pc = "primary"]

\* the outcomes the environment can give the call invocation i is about to make
OutcomesAt(i) ==
    CASE i.pc = "login" -> LoginOutcomes
      [] i.pc = "lookup" -> LookupOutcomes(i)
      [] i.pc = "primary" -> PrimaryOutcomes(i)
      [] OTHER -> {NoOutcome}

\* the next statement of invocation i, under outcome o of the call it awaits
Step(i, f, o) ==
    CASE i.pc = "exists" -> exists_step(i, f)
      [] i.pc = "load" -> load_cookies_step(i, f)
      [] i.pc = "login" -> login_step(i, f, o)
      [] i.pc = "mkdir" -> mkdir_step(i, f)
      [] i.pc = "save" -> save_cookies_step(i, f)
      [] i.pc = "lookup" -> R(lookup_step(i, o), f)
      [] i.pc = "primary" -> R(primary_step(i, o), f)
      [] OTHER -> R(i, f)

---------------------------------------------------------------------------
(* Actions *)

FmtIdle == tweets = <<>> /\ markdown = "" /\ fmtPc = "call"

\* invocation p runs its next statement; the environment answers with o
Advance(p, o) ==
    LET r == Step(inv[p], fs, o)
    IN /\ inv' = [inv EXCEPT ![p] = r.inv]
       /\ fs' = r.fs
       /\ UNCHANGED <<tweets, markdown, fmtPc>>

AllIdle == \A q \in Procs : inv[q].pc = "idle"

\* the protocol server calls tool t with first argument a;
\* get_twitter_client starts with client = twikit.Client(...)
Invoke(p, t, a) ==
    /\ inv[p].pc = "idle"
    /\ inv' = [inv EXCEPT ![p] = [Idle EXCEPT !.pc = "exists", !.tool = t, !.arg = a,
                                              !.username = a]]
    /\ UNCHANGED <<fs, tweets, markdown, fmtPc, lastSaved>>

CookiesPathExists(p) ==
    inv[p].pc = "exists" /\ Advance(p, NoOutcome) /\ UNCHANGED lastSaved

LoadCookies(p) ==
    inv[p].pc = "load" /\ Advance(p, NoOutcome) /\ UNCHANGED lastSaved

Login(p) ==
    inv[p].pc = "login" /\ (\E o \in LoginOutcomes : Advance(p, o)) /\ UNCHANGED lastSaved

Mkdir(p) ==
    inv[p].pc = "mkdir" /\ Advance(p, NoOutcome) /\ UNCHANGED lastSaved

SaveCookies(p) ==
    inv[p].pc = "save" /\ Advance(p, NoOutcome) /\ lastSaved' = p

LookupUser(p) ==
    /\ inv[p].pc = "lookup"
    /\ \E o \in LookupOutcomes(inv[p]) : Advance(p, o)
    /\ UNCHANGED lastSaved

PrimaryCall(p) ==
    /\ inv[p].pc = "primary"
    /\ \E o \in PrimaryOutcomes(inv[p]) : Advance(p, o)
    /\ UNCHANGED lastSaved

\* the result is handed to the protocol server; nothing of the invocation is kept
Finish(p) ==
    /\ inv[p].pc = "done"
    /\ inv' = [inv EXCEPT ![p] = Idle]
    /\ UNCHANGED <<fs, tweets, markdown, fmtPc, lastSaved>>

\* the statements of get_twitter_client
get_twitter_client(p) ==
    \/ CookiesPathExists(p)
    \/ LoadCookies(p)
    \/ Login(p)
    \/ Mkdir(p)
    \/ SaveCookies(p)

---------------------------------------------------------------------------
(* Spec: the tools, invoked one at a time over a filesystem that persists *)

Init ==
    /\ inv = [p \in Procs |-> Idle]
    /\ fs \in FsStates
    /\ FmtIdle
    /\ lastSaved = 0

Next ==
    \E p \in Procs :
        \/ \E t \in Tools : \E a \in ArgsOf(t) : AllIdle /\ Invoke(p, t, a)
        \/ get_twitter_client(p)
        \/ LookupUser(p)
        \/ PrimaryCall(p)
        \/ Finish(p)

Spec == Init /\ [][Next]_vars

---------------------------------------------------------------------------
(* SpecRace: session acquisitions of concurrent invocations, interleaved at
   every statement of get_twitter_client; each invocation runs once *)

NextRace ==
    \E p \in Procs :
        \/ Invoke(p, "get_timeline", "")
        \/ get_twitter_client(p)

SpecRace == Init /\ [][NextRace]_vars

\* SpecRaceFair: the event loop resumes every coroutine that can run, and an
\* awaited login ends (with a session or an exception)
SpecRaceFair == SpecRace /\ \A p \in Procs : WF_vars(get_twitter_client(p))

---------------------------------------------------------------------------
(* SpecLife: invocations that start, interleave, end and start again, from a
   filesystem with no cookie file *)

InitLife ==
    /\ inv = [p \in Procs |-> Idle]
    /\ fs \in {[dir |-> d, file |-> NoFile] : d \in BOOLEAN}
    /\ FmtIdle
    /\ lastSaved = 0

NextLife ==
    \E p \in Procs :
        \/ \E t \in TweetIdTools : \E a \in ArgsOf(t) : Invoke(p, t, a)
        \/ get_twitter_client(p)
        \/ PrimaryCall(p)
        \/ Finish(p)

SpecLife == InitLife /\ [][NextLife]_vars

---------------------------------------------------------------------------
(* SpecTwin: a username tool run twice from the same state, invocation 1 with
   the name n and invocation 2 with "@" + n, the environment answering both
   alike *)

TwinNames == {"alice", "@bob", ""}

Started(t, a) == [Idle EXCEPT !.pc = "exists", !.tool = t, !.arg = a, !.username = a]

InitTwin ==
    /\ \E t \in UsernameTools : \E n \in TwinNames :
          inv = [p \in Procs |-> IF p = 1 THEN Started(t, n)
                                 ELSE IF p = 2 THEN Started(t, "@" \o n)
                                 ELSE Idle]
    /\ fs \in FsStates
    /\ FmtIdle
    /\ lastSaved = 0

TwinStep ==
    /\ inv[1].pc # "done"
    /\ \E o \in OutcomesAt(inv[1]) :
          LET r1 == Step(inv[1], fs, o)
              r2 == Step(inv[2], fs, o)
          IN /\ inv' = [inv EXCEPT ![1] = r1.inv, ![2] = r2.inv]
             /\ fs' = r1.fs
    /\ UNCHANGED <<tweets, markdown, fmtPc, lastSaved>>

SpecTwin == InitTwin /\ [][TwinStep]_vars

---------------------------------------------------------------------------
(* SpecFmt: convert_tweets_to_markdown applied to every bounded tweet list *)

InitFmt ==
    /\ inv = [p \in Procs |-> Idle]
    /\ fs = [dir |-> FALSE, file |-> NoFile]
    /\ tweets \in TweetSeqs
    /\ markdown = ""
    /\ fmtPc = "call"
    /\ lastSaved = 0

Convert ==
    /\ fmtPc = "call"
    /\ markdown' = convert_tweets_to_markdown(tweets)
    /\ fmtPc' = "return"
    /\ UNCHANGED <<inv, fs, tweets, lastSaved>>

NextCall ==
    /\ fmtPc = "return"
    /\ tweets' \in TweetSeqs
    /\ markdown' = ""
    /\ fmtPc' = "call"
    /\ UNCHANGED <<inv, fs, lastSaved>>

NextFmt == Convert \/ NextCall

SpecFmt == InitFmt /\ [][NextFmt]_vars

---------------------------------------------------------------------------
(* Vocabulary of the properties *)

AcquirePcs == {"exists", "load", "login", "mkdir", "save"}

\* invocation p takes a step
Steps(p) == inv'[p] # inv[p]

Methods(i) == [k \in 1..Len(i.calls) |-> i.calls[k][1]]

\* r is s without its leading "@"s
IsStripOf(r, s) ==
    \E k \in 0..Len(s) :
        /\ r = SubSeq(s, k + 1, Len(s))
        /\ \A j \in 1..k : SubSeq(s, j, j) = "@"
        /\ ~StartsWith(r, "@")

EndsWith(s, suffix) ==
    Len(s) >= Len(suffix) /\ SubSeq(s, Len(s) - Len(suffix) + 1, Len(s)) = suffix

\* s is "Failed to <action>: <detail>" with a non-empty action
IsFailedTo(s, detail) ==
    /\ StartsWith(s, "Failed to ")
    /\ EndsWith(s, ": " \o detail)
    /\ Len(s) > Len("Failed to ") + Len(": " \o detail)

\* the acquisition of invocation i found no artifact and its login failed
LoginFailed(i) == ~i.found /\ i.acq = "raised" /\ Methods(i) = <<"login">>

---------------------------------------------------------------------------
(* C1 *)

\* C1: every finished tool invocation returned a text to the protocol server
\* and raised nothing; when get_twitter_client returned and no exception was
\* caught the text does not begin with "Failed to"; when an exception was
\* thrown (in session acquisition, the lookup, the primary call or the
\* formatting) the text is "Failed to <action>: <str(e)>".
C1_ErrorsBecomeText ==
    \A p \in Procs :
        inv[p].pc = "done" =>
            /\ inv[p].ret.kind = "text"
            /\ (inv[p].acq = "returned" /\ ~inv[p].exc.set
                    => ~StartsWith(inv[p].ret.text, "Failed to"))
            /\ (inv[p].acq = "raised" \/ inv[p].exc.set
                    => /\ inv[p].exc.set
                       /\ IsFailedTo(inv[p].ret.text, inv[p].exc.msg)
                       /\ inv[p].log # <<>>
                       /\ inv[p].log[Len(inv[p].log)] = inv[p].ret.text)
            /\ (inv[p].acq = "raised" => inv[p].exc = inv[p].acqExc)

\* a primary call that raised after a successful lookup, turned into text
C1_Witness ==
    \E p \in Procs :
        /\ inv[p].pc = "done"
        /\ inv[p].tool = "get_user_followers"
        /\ Methods(inv[p]) = <<"load_cookies", "get_user_by_screen_name", "get_user_followers">>
        /\ inv[p].ret = Text("Failed to get followers for user alice: denied")

---------------------------------------------------------------------------
(* C2 *)

\* what holds of an acquisition whose existence check found the artifact
C2_Found(p) ==
    inv[p].found =>
        /\ inv[p].pc \notin {"login", "mkdir", "save"}
        /\ \A k \in 1..Len(inv[p].calls) : inv[p].calls[k][1] = "load_cookies"
        /\ (inv[p].acq = "returned"
                => /\ Methods(inv[p]) = <<"load_cookies">>
                   /\ inv[p].client.kind = "cookies"
                   /\ inv[p].log = <<>>)

\* C2: an acquisition whose existence check finds the cookie file goes on to
\* load_cookies and never to login; its client is populated by load_cookies
\* alone, with whatever cookies the file holds (live or stale, unchecked);
\* and none of its steps writes the file or the directory.
C2_ArtifactSkipsLogin ==
    /\ [](\A p \in Procs : C2_Found(p))
    /\ [][\A p \in Procs :
            /\ (inv[p].pc = "exists" /\ fs.file.kind # "absent" /\ Steps(p)
                    => inv'[p].found /\ inv'[p].pc = "load" /\ fs' = fs)
            /\ (inv[p].found /\ Steps(p)
                    => /\ fs' = fs
                       /\ (fs.file.kind = "cookies" => inv'[p].client = fs.file))]_vars

\* a stale cookie file loaded as it is, without login
C2_Witness ==
    \E p \in Procs :
        /\ inv[p].found
        /\ inv[p].acq = "returned"
        /\ inv[p].client = fs.file
        /\ ~inv[p].client.live

---------------------------------------------------------------------------
(* C3 *)

\* what holds of an acquisition that found no artifact, by position
C3_LoginPath(p) ==
    /\ (inv[p].pc = "mkdir"
            => /\ Methods(inv[p]) = <<"login">>
               /\ inv[p].client.kind = "cookies" /\ inv[p].client.live)
    /\ (inv[p].pc = "save"
            => /\ fs.dir
               /\ Methods(inv[p]) = <<"login">>
               /\ inv[p].client.kind = "cookies" /\ inv[p].client.live)
    /\ (~inv[p].found /\ inv[p].acq = "returned"
            => /\ fs.dir
               /\ fs.file.kind = "cookies"
               /\ Methods(inv[p]) = <<"login", "save_cookies">>)

\* C3: an acquisition that found no artifact and whose login succeeded creates
\* the parent directory (if missing) before it writes the file, does both only
\* after login succeeded, and returns with the directory present and the file
\* holding the cookies of its own client; nothing else writes the filesystem.
C3_LoginPersistsArtifact ==
    /\ [](\A p \in Procs : C3_LoginPath(p))
    /\ [][\A p \in Procs :
            /\ (inv[p].pc = "mkdir" /\ Steps(p) => fs'.dir /\ fs'.file = fs.file
                                                   /\ inv'[p].pc = "save")
            /\ (inv[p].pc = "save" /\ Steps(p)
                    => /\ inv'[p].acq = "returned"
                       /\ inv'[p].client = inv[p].client
                       /\ fs' = [dir |-> TRUE, file |-> inv[p].client])
            /\ (inv[p].pc \notin {"mkdir", "save"} /\ Steps(p) => fs' = fs)]_vars

\* login succeeded and the only acquisition so far has returned with the
\* directory present and its own cookies in the file
C3_Witness ==
    \E p \in Procs :
        /\ ~inv[p].found
        /\ inv[p].acq = "returned"
        /\ fs = [dir |-> TRUE, file |-> inv[p].client]
        /\ \A q \in Procs \ {p} : inv[q].pc = "idle"

---------------------------------------------------------------------------
(* C4 *)

\* C4: when no artifact was found and login fails, get_twitter_client has
\* logged "Failed to login: <e>" and raised e to its caller with no client
\* state, after exactly one login call and no other client call; the failing
\* step leaves the filesystem as it was; and an acquisition whose existence
\* check finds no file goes to login whatever happened before.
C4_LoginFailurePropagates ==
    /\ [](\A p \in Procs :
            ~inv[p].found /\ inv[p].acq = "raised"
                => /\ inv[p].calls = <<<<"login", "">>>>
                   /\ inv[p].acqExc.set
                   /\ inv[p].log # <<>>
                   /\ inv[p].log[1] = "Failed to login: " \o inv[p].acqExc.msg
                   /\ inv[p].client = EmptyJar)
    /\ [][\A p \in Procs :
            /\ (inv[p].pc = "login" /\ Steps(p) /\ inv'[p].acq = "raised" => fs' = fs)
            /\ (inv[p].pc = "login" /\ Steps(p)
                    => inv'[p].acq = "raised" \/ inv'[p].pc = "mkdir")
            /\ (inv[p].pc = "exists" /\ fs.file.kind = "absent" /\ Steps(p)
                    => inv'[p].pc = "login" /\ ~inv'[p].found)]_vars

\* one acquisition has failed to log in, nothing was created, and another
\* acquisition is attempting login
C4_Witness ==
    \E p, q \in Procs :
        /\ LoginFailed(inv[p])
        /\ fs = [dir |-> FALSE, file |-> NoFile]
        /\ inv[q].pc = "login"

---------------------------------------------------------------------------
(* C5 *)

\* the acquisitions that found no artifact
Racers == {p \in Procs : inv[p].pc \notin {"idle", "exists"} /\ ~inv[p].found}

\* what holds of the race in every state
C5_RaceState ==
    /\ \A p \in Procs : inv[p].pc \in AcquirePcs => ENABLED get_twitter_client(p)
    /\ \A p \in Racers : inv[p].acq = "raised" => Methods(inv[p]) = <<"login">>
    /\ (Racers # {} /\ \A p \in Racers : inv[p].acq = "returned")
            => /\ lastSaved \in Racers
               /\ fs.dir
               /\ fs.file = inv[lastSaved].client

\* C5: acquisitions racing from a state with no artifact never wait for one
\* another, each of them ends, and raises only when its own login fails;
\* once all of them have returned, the one file holds the cookies of the
\* client whose save_cookies ran last.
C5_RaceLastWriterWins ==
    /\ []C5_RaceState
    /\ \A p \in Procs : (inv[p].pc \in AcquirePcs) ~> (inv[p].acq # "none")

\* both raced with different sessions; 2 saved first, 1 overwrote it
C5_Witness ==
    /\ {1, 2} \subseteq Racers
    /\ inv[1].acq = "returned" /\ inv[2].acq = "returned"
    /\ inv[1].client # inv[2].client
    /\ lastSaved = 1
    /\ fs.file = inv[1].client

---------------------------------------------------------------------------
(* C6 *)

\* invocation i of get_user_by_screen_name got None from the lookup
LookupGaveNone(i) ==
    /\ i.tool = "get_user_by_screen_name"
    /\ i.pc = "done"
    /\ i.acq = "returned"
    /\ ~i.exc.set
    /\ i.user = NoUser

\* C6 as stated: the text returned is "Could not find user <name>"
C6_Original ==
    \A p \in Procs :
        LookupGaveNone(inv[p]) =>
            inv[p].ret = Text("Could not find user " \o inv[p].username)

\* C6, amended: get_user_by_screen_name, when the lookup resolves to no user,
\* returns exactly "Could not find user with screen name <name>", <name> being
\* the argument without its leading "@"s, and the lookup is its last client
\* call: one call to get_user_by_screen_name with <name>, none after it.
C6_NotFoundText ==
    \A p \in Procs :
        LookupGaveNone(inv[p]) =>
            /\ IsStripOf(inv[p].username, inv[p].arg)
            /\ inv[p].ret = Text("Could not find user with screen name " \o inv[p].username)
            /\ inv[p].calls # <<>>
            /\ inv[p].calls[Len(inv[p].calls)] = <<"get_user_by_screen_name", inv[p].username>>
            /\ \A k \in 1..(Len(inv[p].calls) - 1) :
                  inv[p].calls[k][1] \in {"load_cookies", "login", "save_cookies"}

\* "@@bob" looked up as "bob" and not found
C6_Witness ==
    \E p \in Procs :
        /\ LookupGaveNone(inv[p])
        /\ inv[p].arg = "@@bob"
        /\ inv[p].ret = Text("Could not find user with screen name bob")

---------------------------------------------------------------------------
(* C7 *)

\* the screen names invocation i passed to the lookup
LookedUp(i) ==
    {i.calls[k][2] : k \in {j \in 1..Len(i.calls) : i.calls[j][1] = "get_user_by_screen_name"}}

\* C7 as stated: with n and with "@" + n the tool makes the same client calls
\* and returns the same text
C7_Original ==
    /\ inv[1].calls = inv[2].calls
    /\ inv[1].pc = "done" => inv[2].pc = "done" /\ inv[1].ret = inv[2].ret

\* C7, amended: with n and with "@" + n a username tool passes the same screen
\* name (the argument without its leading "@"s) to the lookup, makes the same
\* sequence of client calls and ends alike; the returned text is the same,
\* except for get_user_followers and get_user_following when
\* get_twitter_client raised: their error text then holds the username as
\* given, since the "@" is stripped only after the client is acquired.
C7_AtSignStripped ==
    /\ inv[1].calls = inv[2].calls
    /\ inv[1].pc = inv[2].pc
    /\ \A n \in LookedUp(inv[1]) \cup LookedUp(inv[2]) :
          IsStripOf(n, inv[1].arg) /\ IsStripOf(n, inv[2].arg)
    /\ inv[1].pc = "done" =>
          /\ inv[1].ret.kind = inv[2].ret.kind
          /\ (inv[1].tool \in UserListTools /\ inv[1].acq = "raised"
                 => /\ inv[1].ret.text =
                          "Failed to " \o FailAction(inv[1].tool, inv[1].arg)
                              \o ": " \o inv[1].acqExc.msg
                    /\ inv[2].ret.text =
                          "Failed to " \o FailAction(inv[2].tool, "@" \o inv[1].arg)
                              \o ": " \o inv[1].acqExc.msg)
          /\ (inv[1].tool \notin UserListTools \/ inv[1].acq # "raised"
                 => inv[1].ret = inv[2].ret)

\* "alice" and "@alice" both followed as alice
C7_Witness ==
    /\ inv[1].arg = "alice" /\ inv[2].arg = "@alice"
    /\ inv[1].tool = "follow_user"
    /\ inv[2].calls # <<>>
    /\ inv[2].calls[Len(inv[2].calls)] = <<"follow_user", "7">>
    /\ <<"get_user_by_screen_name", "alice">> \in {inv[2].calls[k] : k \in 1..Len(inv[2].calls)}
    /\ inv[1].ret = Text("Successfully followed user alice")
    /\ inv[2].ret = inv[1].ret

---------------------------------------------------------------------------
(* C8 *)

\* the blocks of tw, each followed by a blank line if another block follows
RECURSIVE BlankLineSeparated(_)
BlankLineSeparated(tw) ==
    IF tw = <<>> THEN ""
    ELSE "**@" \o Head(tw).screen_name \o "** - " \o Head(tw).created_at
            \o "\n" \o Head(tw).text
            \o (IF Tail(tw) = <<>> THEN "" ELSE "\n\n" \o BlankLineSeparated(Tail(tw)))

\* C8: convert_tweets_to_markdown returns the blocks
\* "**@<screen_name>** - <created_at>\n<text>" in input order with "\n\n"
\* between consecutive blocks and nothing before the first or after the last;
\* the empty list gives ""; [a/T1/hi, b/T2/yo] gives
\* "**@a** - T1\nhi\n\n**@b** - T2\nyo".
C8_MarkdownJoin ==
    fmtPc = "return" =>
        /\ markdown = BlankLineSeparated(tweets)
        /\ (tweets = <<>> => markdown = "")
        /\ (tweets # <<>> => StartsWith(markdown, "**@") /\ ~EndsWith(markdown, "\n"))
        /\ (tweets = <<[screen_name |-> "a", created_at |-> "T1", text |-> "hi"],
                       [screen_name |-> "b", created_at |-> "T2", text |-> "yo"]>>
                => markdown = "**@a** - T1\nhi\n\n**@b** - T2\nyo")

\* the two-tweet example, converted
C8_Witness ==
    /\ fmtPc = "return"
    /\ tweets = <<[screen_name |-> "a", created_at |-> "T1", text |-> "hi"],
                  [screen_name |-> "b", created_at |-> "T2", text |-> "yo"]>>
    /\ markdown = "**@a** - T1\nhi\n\n**@b** - T2\nyo"

---------------------------------------------------------------------------
(* C9 *)

\* C9 as stated: a tool invoked with no artifact whose login fails ends by
\* raising the login error instead of returning a text
C9_Original ==
    \A p \in Procs :
        inv[p].pc = "done" /\ LoginFailed(inv[p]) => inv[p].ret.kind = "raise"

\* C9, amended: a login failure is converted like every other failure: when a
\* tool is invoked with no artifact and login fails, get_twitter_client logs
\* "Failed to login: <e>" and re-raises, the tool's except clause catches the
\* error, logs it and returns "Failed to <action>: <e>" as a normal result;
\* no client call follows the failed login.
C9_LoginFailureBecomesText ==
    \A p \in Procs :
        inv[p].pc = "done" /\ LoginFailed(inv[p]) =>
            /\ inv[p].ret.kind = "text"
            /\ inv[p].exc = inv[p].acqExc
            /\ IsFailedTo(inv[p].ret.text, inv[p].acqExc.msg)
            /\ ~StartsWith(inv[p].ret.text, "Failed to login")
            /\ inv[p].log = <<"Failed to login: " \o inv[p].acqExc.msg, inv[p].ret.text>>

\* search_twitter with no cookie file and a refused login
C9_Witness ==
    \E p \in Procs :
        /\ LoginFailed(inv[p])
        /\ fs.file = NoFile
        /\ inv[p].tool = "search_twitter"
        /\ inv[p].ret = Text("Failed to search tweets: denied")

---------------------------------------------------------------------------
(* C10 *)

\* C10 as stated: with a corrupted or stale cookie file get_twitter_client
\* still returns a client, and a failure shows only in a later client call
C10_Original ==
    \A p \in Procs :
        inv[p].found /\ inv[p].acq # "none" =>
            /\ inv[p].acq = "returned"
            /\ (inv[p].pc = "done" /\ inv[p].exc.set => Len(inv[p].calls) > 1)

\* C10, amended: a stale cookie file is loaded unchecked, get_twitter_client
\* returns the client, and the problem shows only as the failure of the first
\* client call made with it; a corrupted cookie file makes load_cookies raise
\* inside get_twitter_client, which does not catch or log it and returns no
\* client: session acquisition itself fails, without any login attempt, and
\* the tool's except clause turns the error into "Failed to <action>: <e>".
C10_StaleReturnsCorruptRaises ==
    \A p \in Procs :
        /\ (inv[p].found /\ inv[p].acq # "none" /\ fs.file.kind = "cookies" /\ ~fs.file.live
                => /\ inv[p].acq = "returned"
                   /\ inv[p].client = fs.file
                   /\ ~inv[p].acqExc.set
                   /\ (inv[p].pc = "done"
                          => /\ inv[p].exc.set
                             /\ Len(inv[p].calls) = 2
                             /\ inv[p].exc.msg \in ErrMsgs
                             /\ IsFailedTo(inv[p].ret.text, inv[p].exc.msg)
                             /\ Len(inv[p].log) = 1))
        /\ (inv[p].found /\ inv[p].acq # "none" /\ fs.file.kind = "corrupt"
                => /\ inv[p].acq = "raised"
                   /\ inv[p].acqExc = Exc(JsonErr)
                   /\ inv[p].client = EmptyJar
                   /\ inv[p].calls = <<<<"load_cookies", "">>>>
                   /\ inv[p].pc = "done"
                   /\ inv[p].ret.kind = "text"
                   /\ IsFailedTo(inv[p].ret.text, JsonErr)
                   /\ inv[p].log = <<inv[p].ret.text>>)

\* get_timeline over a corrupted cookie file: acquisition raised, text returned
C10_Witness ==
    \E p \in Procs :
        /\ fs.file = CorruptFile
        /\ inv[p].found
        /\ inv[p].acq = "raised"
        /\ inv[p].ret = Text("Failed to get timeline: Expecting value")

---------------------------------------------------------------------------
(* C11 *)

\* what holds of the artifact and of the client handles in every state
C11_State ==
    /\ fs.file.kind \in {"absent", "cookies"}
    /\ fs.file.kind = "cookies" => fs.dir /\ fs.file.live /\ lastSaved # 0
    /\ \A p \in Procs :
          /\ inv[p].pc \in {"idle", "exists", "load", "login"} => inv[p].client = EmptyJar
          /\ inv[p].acq = "returned" =>
                \/ inv[p].found /\ inv[p].calls[1] = <<"load_cookies", "">>
                                /\ inv[p].client.kind = "cookies"
                \/ ~inv[p].found /\ Len(inv[p].calls) > 1
                                 /\ inv[p].calls[1] = <<"login", "">>
                                 /\ inv[p].calls[2] = <<"save_cookies", "">>

\* C11: starting with no artifact, whatever the invocations and their
\* interleaving: the cookie file appears only by the save_cookies of an
\* invocation whose own login succeeded; once it exists it exists in every
\* later state; and every invocation starts with a fresh empty client, which
\* gets its cookies from the file as it is at load_cookies or from its own
\* login, and of which nothing is kept when the invocation ends.
C11_ArtifactLifecycle ==
    /\ []C11_State
    /\ [][/\ (fs.file.kind = "absent" /\ fs'.file.kind # "absent"
                 => \E p \in Procs :
                       /\ inv[p].pc = "save" /\ Steps(p)
                       /\ Methods(inv[p]) = <<"login">>
                       /\ inv[p].client.kind = "cookies" /\ inv[p].client.live
                       /\ fs'.file = inv[p].client)
          /\ (fs.file.kind # "absent" => fs'.file.kind # "absent")
          /\ (fs.dir => fs'.dir)
          /\ \A p \in Procs :
                /\ (inv[p].pc = "idle" /\ Steps(p)
                       => inv'[p].client = EmptyJar /\ inv'[p].calls = <<>>
                          /\ inv'[p].pc = "exists")
                /\ (inv[p].pc = "load" /\ Steps(p) /\ inv'[p].acq = "returned"
                       => inv'[p].client = fs.file)
                /\ (inv[p].pc = "done" /\ Steps(p) => inv'[p] = Idle)
                /\ (inv[p].client # EmptyJar /\ Steps(p) /\ inv'[p].pc # "idle"
                       => inv'[p].client = inv[p].client)]_vars

\* invocation 1 logged in and saved, ended, was invoked again and now holds the
\* cookies it loaded from the file, while invocation 2 is still at its login
C11_Witness ==
    /\ lastSaved = 1
    /\ inv[1].found
    /\ inv[1].acq = "returned"
    /\ inv[1].client = fs.file
    /\ Methods(inv[1]) = <<"load_cookies">>
    /\ inv[2].pc = "login"

====
